---- MODULE Spec2Model ----
(***************************************************************************)
(* QRShield post-processing engine: the path from an upstream response to *)
(* an AnalysisResult (performDeepAnalysis -> processResponse ->            *)
(* applyHeuristicOverrides -> ensureDimensionalSeparation -> score ->      *)
(* level), in the four service variants of the repository:                 *)
(*   "gemini" src/services/geminiService.ts                                *)
(*   "p009"   src/unnamed/part_009 (second service file, lines 116-309)    *)
(*   "p010"   src/unnamed/part_010                                         *)
(*   "p006"   src/unnamed/part_006                                         *)
(*                                                                         *)
(* JavaScript values are modelled as tagged records so that a field of     *)
(* the upstream JSON that is not a number keeps the behaviour JavaScript   *)
(* gives it (x || 0 keeps a non-empty string, arithmetic on it is NaN).    *)
(* Numbers are integers; the weighted sums are computed exactly in         *)
(* tenths/hundredths/thousandths. Where the exact sum is a tie (k + 0.5)   *)
(* the IEEE-754 double the code rounds lies on the tie or one rounding     *)
(* error to either side of it, so Math.round yields k or k + 1: both       *)
(* outcomes are kept.                                                      *)
(***************************************************************************)
EXTENDS Integers, Sequences, FiniteSets, TLC

VARIABLES variant, apiKey, req, probe, app, scanner

vars == <<variant, apiKey, req, probe, app, scanner>>

Variants == {"gemini", "p009", "p010", "p006"}

(***************************************************************************)
(* JavaScript values                                                       *)
(***************************************************************************)
Num(n) == [k |-> "num", n |-> n]
NaN == [k |-> "NaN", n |-> 0]
\* a non-empty string that is not a numeral, e.g. "high"
Str == [k |-> "string", n |-> 0]
\* a JSON object or array
Obj == [k |-> "object", n |-> 0]
\* undefined, or JSON null (both are falsy and both give NaN in arithmetic
\* except null which is 0; null never survives x || 0)
Undefined == [k |-> "undefined", n |-> 0]

IsNum(x) == x.k = "num"

\* ToBoolean
Truthy(x) ==
  CASE x.k = "num" -> x.n # 0
    [] x.k = "NaN" -> FALSE
    [] x.k = "string" -> TRUE
    [] x.k = "object" -> TRUE
    [] OTHER -> FALSE

\* x || 0
OrZero(x) == IF Truthy(x) THEN x ELSE Num(0)

\* x - y
JsSub(x, y) == IF IsNum(x) /\ IsNum(y) THEN Num(x.n - y.n) ELSE NaN

\* Math.abs(x)
JsAbs(x) == IF IsNum(x) THEN Num(IF x.n < 0 THEN 0 - x.n ELSE x.n) ELSE NaN

\* Math.max(x, y), Math.min(x, y): NaN as soon as one argument is not a number
JsMax(x, y) ==
  IF IsNum(x) /\ IsNum(y) THEN Num(IF x.n >= y.n THEN x.n ELSE y.n) ELSE NaN

JsMin(x, y) ==
  IF IsNum(x) /\ IsNum(y) THEN Num(IF x.n <= y.n THEN x.n ELSE y.n) ELSE NaN

\* x + c with c a number: addition on numbers, concatenation on a string or
\* an object ("high15", "[object Object]15")
JsPlus(x, c) ==
  CASE x.k = "num" -> Num(x.n + c)
    [] x.k = "string" -> Str
    [] x.k = "object" -> Str
    [] OTHER -> NaN

\* x < c, x >= c, x > c: every comparison with NaN is false
JsLess(x, c) == IsNum(x) /\ x.n < c
JsGeq(x, c) == IsNum(x) /\ x.n >= c
JsGreater(x, c) == IsNum(x) /\ x.n > c

(***************************************************************************)
(* Payload text: a sequence of one-character strings                       *)
(***************************************************************************)
UpperToLower ==
  ("A" :> "a") @@ ("B" :> "b") @@ ("C" :> "c") @@ ("D" :> "d") @@
  ("E" :> "e") @@ ("F" :> "f") @@ ("G" :> "g") @@ ("H" :> "h") @@
  ("I" :> "i") @@ ("J" :> "j") @@ ("K" :> "k") @@ ("L" :> "l") @@
  ("M" :> "m") @@ ("N" :> "n") @@ ("O" :> "o") @@ ("P" :> "p") @@
  ("Q" :> "q") @@ ("R" :> "r") @@ ("S" :> "s") @@ ("T" :> "t") @@
  ("U" :> "u") @@ ("V" :> "v") @@ ("W" :> "w") @@ ("X" :> "x") @@
  ("Y" :> "y") @@ ("Z" :> "z")

toLowerCase(s) ==
  [i \in 1..Len(s) |->
     IF s[i] \in DOMAIN UpperToLower THEN UpperToLower[s[i]] ELSE s[i]]

\* String.prototype.includes
includes(s, p) ==
  \E i \in 0..(Len(s) - Len(p)) : \A k \in 1..Len(p) : s[i + k] = p[k]

badPatterns009 ==
  << <<"b","i","t",".","l","y">>, <<"t",".","c","o">>,
     <<"t","i","n","y","u","r","l">>, <<"i","s",".","g","d">>,
     <<"b","u","f","f",".","l","y">>, <<"a","d","f",".","l","y">>,
     <<"b","i","t",".","d","o">>, <<"m","c","a","f",".","e","e">>,
     <<"b","a","s","e","6","4">>, <<"d","a","t","a",":">>,
     <<"j","a","v","a","s","c","r","i","p","t",":">>,
     <<"u","p","i",":","/","/">>, <<"t","a","r","g","e","t","=">>,
     <<"r","e","d","i","r","e","c","t","=">>, <<"l","o","g","i","n">>,
     <<"v","e","r","i","f","y">>, <<"a","c","c","o","u","n","t">>,
     <<"s","e","c","u","r","e">>, <<"b","i","l","l","i","n","g">>,
     <<"u","p","d","a","t","e">> >>

badPatterns006 ==
  << <<"b","i","t",".","l","y">>, <<"t",".","c","o">>,
     <<"t","i","n","y","u","r","l">>, <<"i","s",".","g","d">>,
     <<"s","c","a","n",".","p","a","g","e">>, <<"q","r","c","o",".","d","e">>,
     <<"q","r","-","c","o","d","e","-","g","e","n","e","r","a","t","o","r">>,
     <<"b","a","s","e","6","4">>, <<"d","a","t","a",":">>,
     <<"j","a","v","a","s","c","r","i","p","t",":">>,
     <<"u","p","i",":","/","/">>, <<"t","a","r","g","e","t","=">>,
     <<"r","e","d","i","r","e","c","t","=">>, <<"l","o","g","i","n">> >>

badPatterns(v) == IF v = "p006" THEN badPatterns006 ELSE badPatterns009

\* the test on content as it is, without toLowerCase
hasBadPatternCaseSensitive(v, content) ==
  \E j \in 1..Len(badPatterns(v)) : includes(content, badPatterns(v)[j])

\* badPatterns.some(p => contentLower.includes(p))
hasBadPattern(v, content) ==
  LET contentLower == toLowerCase(content)
  IN \E j \in 1..Len(badPatterns(v)) : includes(contentLower, badPatterns(v)[j])

(***************************************************************************)
(* The probability triple and the steps of the pipeline                    *)
(***************************************************************************)
Keys == <<"malicious", "fake", "authentic">>

KeyIndex(key) == CHOOSE i \in 1..3 : Keys[i] = key

\* the six orders of the three keys
Permutations3 ==
  { <<"malicious", "fake", "authentic">>, <<"malicious", "authentic", "fake">>,
    <<"fake", "malicious", "authentic">>, <<"fake", "authentic", "malicious">>,
    <<"authentic", "malicious", "fake">>, <<"authentic", "fake", "malicious">> }

\* the comparator (a, b) => b.val - a.val; sort takes a NaN result as +0
compareDesc(probs, a, b) ==
  LET d == JsSub(probs[b], probs[a]) IN IF IsNum(d) THEN d.n ELSE 0

\* a consistent comparator in the sense of ECMAScript's Array.prototype.sort
consistentComparator(probs) ==
  \A a, b, c \in {"malicious", "fake", "authentic"} :
    /\ (compareDesc(probs, a, b) = 0 /\ compareDesc(probs, b, c) = 0)
          => compareDesc(probs, a, c) = 0
    /\ (compareDesc(probs, a, b) = 0 /\ compareDesc(probs, b, c) < 0)
          => compareDesc(probs, a, c) < 0
    /\ (compareDesc(probs, a, b) < 0 /\ compareDesc(probs, b, c) = 0)
          => compareDesc(probs, a, c) < 0

\* a sort that returns equal values in the reverse of their input order
sortDescUnstable(probs) ==
  { s \in Permutations3 :
      \A i, j \in 1..3 : i < j =>
        \/ compareDesc(probs, s[i], s[j]) < 0
        \/ /\ compareDesc(probs, s[i], s[j]) = 0
           /\ KeyIndex(s[i]) > KeyIndex(s[j]) }

\* [{key: 'malicious', val: m}, {key: 'fake', val: f}, {key: 'authentic',
\* val: a}].sort((a, b) => b.val - a.val): the orders of the keys the sort can
\* return. The sort is stable; with a comparator that is not consistent (one
\* value is not a number and the two others differ) the order is
\* implementation-defined.
sortDesc(probs) ==
  IF consistentComparator(probs)
  THEN { s \in Permutations3 :
           \A i, j \in 1..3 : i < j =>
             \/ compareDesc(probs, s[i], s[j]) < 0
             \/ /\ compareDesc(probs, s[i], s[j]) = 0
                /\ KeyIndex(s[i]) < KeyIndex(s[j]) }
  ELSE Permutations3

MaliciousFloor(v) == IF v = "p006" THEN 85 ELSE 90

\* the override applied whatever the payload holds
applyHeuristicOverridesAlways(v, probs, content) ==
  [malicious |-> JsMax(probs.malicious, Num(MaliciousFloor(v))),
   fake |-> Num(100),
   authentic |-> JsMin(probs.authentic, Num(5))]

\* the override with authentic left as the model returned it
applyHeuristicOverridesKeepsAuthentic(v, probs, content) ==
  IF hasBadPattern(v, content)
  THEN [malicious |-> JsMax(probs.malicious, Num(MaliciousFloor(v))),
        fake |-> Num(100),
        authentic |-> probs.authentic]
  ELSE probs

applyHeuristicOverrides(v, probs, content) ==
  IF hasBadPattern(v, content)
  THEN [malicious |-> JsMax(probs.malicious, Num(MaliciousFloor(v))),
        fake |-> Num(100),
        authentic |-> JsMin(probs.authentic, Num(5))]
  ELSE probs

\* Math.max(...[|m - f|, |m - a|, |f - a|])
maxDiff(probs) ==
  JsMax(JsMax(JsAbs(JsSub(probs.malicious, probs.fake)),
              JsAbs(JsSub(probs.malicious, probs.authentic))),
        JsAbs(JsSub(probs.fake, probs.authentic)))

SeparationStep(v) == IF v = "gemini" THEN 15 ELSE IF v = "p010" THEN 20 ELSE 30

SeparationThreshold(v) == IF v = "p009" THEN 40 ELSE 30

\* the rewrite without Math.min(100, ...) and Math.max(0, ...)
adjustUnclamped(v, probs, sorted) ==
  [probs EXCEPT
     ![sorted[1]] = JsPlus(probs[sorted[1]], SeparationStep(v)),
     ![sorted[3]] = JsSub(probs[sorted[3]], Num(SeparationStep(v)))]

\* the rewrite with the decrease applied to the middle entry of sorted
adjustLowersMiddle(v, probs, sorted) ==
  [probs EXCEPT
     ![sorted[1]] = JsMin(Num(100), JsPlus(probs[sorted[1]], SeparationStep(v))),
     ![sorted[2]] = JsMax(Num(0), JsSub(probs[sorted[2]], Num(SeparationStep(v))))]

\* the branch that rewrites the highest and the lowest entry of sorted
adjust(v, probs, sorted) ==
  [probs EXCEPT
     ![sorted[1]] = JsMin(Num(100), JsPlus(probs[sorted[1]], SeparationStep(v))),
     ![sorted[3]] = JsMax(Num(0), JsSub(probs[sorted[3]], Num(SeparationStep(v))))]

\* sorted is the order the sort returned, an element of sortDesc(probs)
ensureDimensionalSeparation(v, probs, sorted) ==
  IF v = "p009"
  THEN IF JsLess(JsAbs(JsSub(probs[sorted[1]], probs[sorted[2]])),
                 SeparationThreshold(v))
       THEN adjust(v, probs, sorted)
       ELSE probs
  ELSE IF JsLess(maxDiff(probs), SeparationThreshold(v))
       THEN adjust(v, probs, sorted)
       ELSE probs

AllNum(probs) ==
  IsNum(probs.malicious) /\ IsNum(probs.fake) /\ IsNum(probs.authentic)

Clamp(lo, hi, x) == IF x < lo THEN lo ELSE IF x > hi THEN hi ELSE x

\* Math.round of the number x / unit: the nearest integer, and on a tie
\* (x / unit = k + 0.5 exactly) k or k + 1, see the head of the module
roundOutcomes(x, unit) ==
  IF (2 * x) % unit = 0 /\ x % unit # 0
  THEN {x \div unit, (x \div unit) + 1}
  ELSE {(2 * x + unit) \div (2 * unit)}

\* the composite score without Math.max(0, Math.min(100, ...))
scoreOutcomesUnclamped(v, probs) ==
  IF ~AllNum(probs) THEN {NaN}
  ELSE LET m == probs.malicious.n
           f == probs.fake.n
           a == probs.authentic.n
       IN CASE v = "gemini" ->
                 { Num(r) : r \in roundOutcomes(5 * m + 4 * f - 3 * a, 10) }
            [] v = "p010" ->
                 { Num(r) : r \in roundOutcomes(
                     (6 * m + 5 * f - 3 * a) * 11, 100) }
            [] OTHER ->
                 { Num(r) : r \in roundOutcomes(
                     (8 * m + 7 * f - 5 * a) * 135, 1000) }

\* part_009 and part_006 with the weighted sum clamped to [0, 100] before it
\* is scaled
scoreOutcomesClampsRaw(v, probs) ==
  IF ~AllNum(probs) THEN {NaN}
  ELSE LET m == probs.malicious.n
           f == probs.fake.n
           a == probs.authentic.n
       IN CASE v = "gemini" ->
                 { Num(r) : r \in roundOutcomes(
                     Clamp(0, 1000, 5 * m + 4 * f - 3 * a), 10) }
            [] v = "p010" ->
                 { Num(Clamp(0, 100, r)) : r \in roundOutcomes(
                     (6 * m + 5 * f - 3 * a) * 11, 100) }
            [] OTHER ->
                 { Num(r) : r \in roundOutcomes(
                     Clamp(0, 1000, 8 * m + 7 * f - 5 * a) * 135, 1000) }

\* geminiService.ts with the authentic term added instead of subtracted
scoreOutcomesAddsAuthentic(v, probs) ==
  IF ~AllNum(probs) THEN {NaN}
  ELSE LET m == probs.malicious.n
           f == probs.fake.n
           a == probs.authentic.n
       IN CASE v = "gemini" ->
                 { Num(r) : r \in roundOutcomes(
                     Clamp(0, 1000, 5 * m + 4 * f + 3 * a), 10) }
            [] v = "p010" ->
                 { Num(Clamp(0, 100, r)) : r \in roundOutcomes(
                     (6 * m + 5 * f - 3 * a) * 11, 100) }
            [] OTHER ->
                 { Num(Clamp(0, 100, r)) : r \in roundOutcomes(
                     (8 * m + 7 * f - 5 * a) * 135, 1000) }

\* the integer scores the composite calculator can return for a triple
scoreOutcomes(v, probs) ==
  IF ~AllNum(probs) THEN {NaN}
  ELSE LET m == probs.malicious.n
           f == probs.fake.n
           a == probs.authentic.n
       IN CASE v = "gemini" ->
                 { Num(r) : r \in roundOutcomes(
                     Clamp(0, 1000, 5 * m + 4 * f - 3 * a), 10) }
            [] v = "p010" ->
                 { Num(Clamp(0, 100, r)) : r \in roundOutcomes(
                     (6 * m + 5 * f - 3 * a) * 11, 100) }
            [] OTHER ->
                 { Num(Clamp(0, 100, r)) : r \in roundOutcomes(
                     (8 * m + 7 * f - 5 * a) * 135, 1000) }

RiskLevels == <<"LOW", "MODERATE", "SUSPICIOUS", "HIGH", "CRITICAL">>

\* the chain of part_009 and part_006 with > in place of >=
levelOfStrict(v, finalScore) ==
  IF v = "p010"
  THEN IF JsGreater(finalScore, 85) THEN "CRITICAL"
       ELSE IF JsGreater(finalScore, 70) THEN "HIGH"
       ELSE IF JsGreater(finalScore, 45) THEN "SUSPICIOUS"
       ELSE IF JsGreater(finalScore, 20) THEN "MODERATE"
       ELSE "LOW"
  ELSE IF JsGreater(finalScore, 80) THEN "CRITICAL"
       ELSE IF JsGreater(finalScore, 60) THEN "HIGH"
       ELSE IF JsGreater(finalScore, 40) THEN "SUSPICIOUS"
       ELSE IF JsGreater(finalScore, 20) THEN "MODERATE"
       ELSE "LOW"

\* the chain with the labels HIGH and SUSPICIOUS exchanged
levelOfSwapped(v, finalScore) ==
  IF v = "p010"
  THEN IF JsGreater(finalScore, 85) THEN "CRITICAL"
       ELSE IF JsGreater(finalScore, 70) THEN "SUSPICIOUS"
       ELSE IF JsGreater(finalScore, 45) THEN "HIGH"
       ELSE IF JsGreater(finalScore, 20) THEN "MODERATE"
       ELSE "LOW"
  ELSE IF JsGeq(finalScore, 80) THEN "CRITICAL"
       ELSE IF JsGeq(finalScore, 60) THEN "SUSPICIOUS"
       ELSE IF JsGeq(finalScore, 40) THEN "HIGH"
       ELSE IF JsGeq(finalScore, 20) THEN "MODERATE"
       ELSE "LOW"

\* the if / else-if chain over finalScore
levelOf(v, finalScore) ==
  IF v = "p010"
  THEN IF JsGreater(finalScore, 85) THEN "CRITICAL"
       ELSE IF JsGreater(finalScore, 70) THEN "HIGH"
       ELSE IF JsGreater(finalScore, 45) THEN "SUSPICIOUS"
       ELSE IF JsGreater(finalScore, 20) THEN "MODERATE"
       ELSE "LOW"
  ELSE IF JsGeq(finalScore, 80) THEN "CRITICAL"
       ELSE IF JsGeq(finalScore, 60) THEN "HIGH"
       ELSE IF JsGeq(finalScore, 40) THEN "SUSPICIOUS"
       ELSE IF JsGeq(finalScore, 20) THEN "MODERATE"
       ELSE "LOW"

(***************************************************************************)
(* The upstream response and JSON.parse                                    *)
(***************************************************************************)
\* recommended_actions: absent, or an array of strings
NoList == [some |-> FALSE, items |-> <<>>]
List(items) == [some |-> TRUE, items |-> items]

\* response.text by what JSON.parse makes of it:
\*   "empty"   undefined or "" (parsed as "{}")
\*   "invalid" not JSON (SyntaxError)
\*   "null"    the JSON text null
\*   "scalar"  a JSON number, string, boolean or array: no field is defined
\*   "object"  a JSON object with the fields below; a field that is absent
\*             or null is Undefined / "" / NoList / <<>>
\* chunks is the number of web entries among the grounding chunks
Response(text, m, f, a, level, assessment, actions, original, chunks) ==
  [text |-> text, malicious_intent |-> m, fake_or_pseudo_pattern |-> f,
   official_or_authentic |-> a, risk_level |-> level,
   expert_assessment |-> assessment, recommended_actions |-> actions,
   originalContent |-> original, chunks |-> chunks]

BareResponse(text) ==
  Response(text, Undefined, Undefined, Undefined, "", "", NoList, <<>>, 0)

ProbsResponse(m, f, a) ==
  Response("object", m, f, a, "", "", NoList, <<>>, 0)

\* JSON.parse(response.text || "{}") followed by the first property read of
\* raw: a SyntaxError for text that is not JSON, a TypeError for null
parseThrows(resp) == resp.text \in {"invalid", "null"}

parseMessage(resp) ==
  IF resp.text = "invalid" THEN "Unexpected token in JSON"
  ELSE "Cannot read properties of null"

\* raw of a response that parsed: only a JSON object has fields
rawOf(resp) == IF resp.text = "object" THEN resp ELSE BareResponse(resp.text)

(***************************************************************************)
(* AnalysisResult                                                          *)
(***************************************************************************)
Null == <<"null">>

\* content || sentinel
orSentinel(content, sentinel) ==
  IF content = Null \/ content = <<>> THEN sentinel ELSE content

Probs(m, f, a) == [malicious |-> m, fake |-> f, authentic |-> a]

NoProbs == Probs(Undefined, Undefined, Undefined)

NoSteps == [extracted |-> NoProbs, overridden |-> NoProbs, separated |-> NoProbs]

\* groundingSources is the number of sources, 0 for undefined; systemStatus
\* is "" where the variant's AnalysisResult has no such field
AnalysisResult(score, level, explanation, recommendations, original, sources, status, probs) ==
  [riskScore |-> score, riskLevel |-> level, explanation |-> explanation,
   recommendations |-> recommendations, originalContent |-> original,
   groundingSources |-> sources, systemStatus |-> status,
   probabilities |-> probs]

NoResult == AnalysisResult(Undefined, "", "", <<>>, <<>>, 0, "", NoProbs)

DefaultExplanation(v) ==
  CASE v = "gemini" -> "No detailed forensic log generated."
    [] v = "p009" -> "No log generated."
    [] v = "p010" -> "Automated audit logs compiled."
    [] OTHER -> "Automated scan complete."

DefaultRecommendations(v) ==
  CASE v = "gemini" -> <<"Exercise high caution.">>
    [] v = "p009" -> <<"Exercise caution.">>
    [] v = "p010" -> <<"Exercise extreme caution with this payload.">>
    [] OTHER -> <<"Stay vigilant.">>

\* the probabilities read without the || 0 default
extractProbsNoDefault(raw) ==
  Probs(raw.malicious_intent, raw.fake_or_pseudo_pattern,
        raw.official_or_authentic)

\* the probabilities read from raw.probability_breakdown, each with || 0
extractProbs(raw) ==
  Probs(OrZero(raw.malicious_intent), OrZero(raw.fake_or_pseudo_pattern),
        OrZero(raw.official_or_authentic))

\* the override step with its result dropped
overrideStepDropped(v, probs, content) == probs

\* the triple after the variant's override step (none in gemini and p010)
overrideStep(v, probs, content) ==
  IF v \in {"p009", "p006"} THEN applyHeuristicOverrides(v, probs, content)
  ELSE probs

\* the triple after the variant's separation step (none in p006)
separationStep(v, probs, sorted) ==
  IF v = "p006" THEN probs ELSE ensureDimensionalSeparation(v, probs, sorted)

\* the level of the result: computed from the score, except in gemini
resultLevel(v, raw, score) ==
  IF v = "gemini"
  THEN IF raw.risk_level # "" THEN raw.risk_level ELSE "MODERATE"
  ELSE levelOf(v, score)

\* the AnalysisResult assembled from the steps' values
assemble(v, raw, defaultContent, probs, score) ==
  AnalysisResult(
    score,
    resultLevel(v, raw, score),
    IF raw.expert_assessment # "" THEN raw.expert_assessment
    ELSE DefaultExplanation(v),
    IF raw.recommended_actions.some THEN raw.recommended_actions.items
    ELSE DefaultRecommendations(v),
    IF v \in {"gemini", "p010"} /\ raw.originalContent # <<>>
    THEN raw.originalContent ELSE defaultContent,
    IF v \in {"gemini", "p010"} THEN raw.chunks ELSE 0,
    IF v = "p009" THEN "active" ELSE "",
    probs)

\* what a call processResponse(response, defaultContent) can do: throw, or
\* return a result (steps are the values of probs along the way)
Returned(value, steps) ==
  [thrown |-> FALSE, message |-> "", value |-> value, steps |-> steps]

Thrown(message) ==
  [thrown |-> TRUE, message |-> message, value |-> NoResult, steps |-> NoSteps]

processResponse(v, resp, defaultContent) ==
  IF parseThrows(resp) THEN {Thrown(parseMessage(resp))}
  ELSE LET raw == rawOf(resp)
           extracted == extractProbs(raw)
           overridden == overrideStep(v, extracted, defaultContent)
       IN UNION {
            LET separated == separationStep(v, overridden, sorted)
            IN { Returned(assemble(v, raw, defaultContent, separated, score),
                          [extracted |-> extracted, overridden |-> overridden,
                           separated |-> separated]) :
                 score \in scoreOutcomes(v, separated) } :
            sorted \in sortDesc(overridden) }

(***************************************************************************)
(* performDeepAnalysis                                                     *)
(***************************************************************************)

\* the texts that stand for a payload that is null or empty
HALTED ==
  <<"A","n","a","l","y","s","i","s"," ","H","a","l","t","e","d">>

ENCODED ==
  <<"E","n","c","o","d","e","d"," ","A","r","t","i","f","a","c","t">>

SCANFAILED ==
  <<"S","c","a","n"," ","F","a","i","l","e","d">>

NOPAYLOAD ==
  <<"N","O","_","P","A","Y","L","O","A","D","_","A","R","T","I","F","A","C","T">>

HIDDEN ==
  <<"H","I","D","D","E","N","_","I","M","A","G","E","_","D","A","T","A">>

ERRORARTIFACT ==
  <<"E","R","R","O","R","_","A","R","T","I","F","A","C","T">>

OFFLINE ==
  <<"O","F","F","L","I","N","E","_","P","A","Y","L","O","A","D">>

ENCODEDPAYLOAD ==
  <<"E","n","c","o","d","e","d"," ","P","a","y","l","o","a","d"," ","A","r","t","i","f","a","c","t">>

SYSTEMERROR ==
  <<"S","y","s","t","e","m"," ","E","r","r","o","r">>

CORRUPTED ==
  <<"A","r","t","i","f","a","c","t"," ","c","o","r","r","u","p","t","e","d">>

\* errorType.includes("API_KEY_MISSING")
mentionsKeyMissing(errorType) ==
  errorType \in {"API_KEY_MISSING", "403 API_KEY_MISSING"}

getErrorResult(v, content, errorType) ==
  LET isKeyError == mentionsKeyMissing(errorType)
  IN IF v = "gemini"
     THEN AnalysisResult(
            IF isKeyError THEN Num(0) ELSE Num(50),
            IF isKeyError THEN "LOW" ELSE "SUSPICIOUS",
            IF isKeyError THEN "FORENSIC ENGINE OFFLINE"
            ELSE "FORENSIC DISRUPTION: " \o errorType
                   \o ". Manual verification required.",
            IF isKeyError
            THEN <<"Configure local .env file", "Restart VS Code terminal",
                   "Check API permissions">>
            ELSE <<"Check domain spelling", "Don't submit personal info",
                   "Scan again in 60 seconds">>,
            content, 0, "", Probs(Num(0), Num(0), Num(0)))
     ELSE AnalysisResult(
            IF isKeyError THEN Num(0) ELSE Num(95),
            IF isKeyError THEN "LOW" ELSE "CRITICAL",
            IF isKeyError THEN "FORENSIC ENGINE DISCONNECTED"
            ELSE "CRITICAL ENGINE FAILURE: " \o errorType
                   \o ". This payload must be treated as a direct threat.",
            IF isKeyError
            THEN <<"Set up your API Key locally",
                   "Review project documentation", "Restart Dev Server">>
            ELSE <<"DO NOT OPEN THIS QR", "Report to security team",
                   "Wipe clipboard data">>,
            content, 0, "",
            IF isKeyError THEN Probs(Num(0), Num(0), Num(0))
            ELSE Probs(Num(90), Num(100), Num(5)))

\* the result returned at once when process.env.API_KEY is not set
keyMissingResult(v, content) ==
  CASE v = "gemini" ->
         getErrorResult(v, orSentinel(content, HALTED), "API_KEY_MISSING")
    [] v = "p010" ->
         getErrorResult(v, orSentinel(content, OFFLINE), "API_KEY_MISSING")
    [] OTHER ->
         AnalysisResult(Num(0), "LOW", "API key not detected",
           <<"Create a .env file in the project root",
             "Add: API_KEY=your_api_key_here",
             "Restart the VS Code terminal and rerun the application">>,
           orSentinel(content, NOPAYLOAD), 0, "configuration_required",
           Probs(Num(0), Num(0), Num(0)))

\* the catch block; message is error.message ("" when it has none)
catchResult(v, content, message) ==
  CASE v = "gemini" ->
         getErrorResult(v, orSentinel(content, SCANFAILED),
                        IF message # "" THEN message ELSE "Engine Error")
    [] v = "p010" ->
         getErrorResult(v, orSentinel(content, SYSTEMERROR),
                        IF message # "" THEN message ELSE "Engine Error")
    [] v = "p009" ->
         AnalysisResult(Num(100), "CRITICAL",
           "ENGINE ERROR: " \o (IF message # "" THEN message ELSE "undefined")
             \o ". Payload treated as critical threat by default.",
           <<"DO NOT OPEN THIS QR", "Report to local IT", "Wipe clipboard">>,
           orSentinel(content, ERRORARTIFACT), 0, "active",
           Probs(Num(100), Num(100), Num(0)))
    [] OTHER ->
         AnalysisResult(Num(100), "CRITICAL",
           "FORENSIC ENGINE ERROR: "
             \o (IF message # "" THEN message ELSE "Unknown Failure")
             \o ". As a security precaution, this payload is classified as"
             \o " CRITICAL until manual verification.",
           <<"DO NOT OPEN", "Report to security team", "Wipe browser cache">>,
           orSentinel(content, CORRUPTED), 0, "",
           Probs(Num(100), Num(100), Num(0)))

\* the data URL of the captured image standing for a payload that is null or
\* empty
defaultContentOfImageUrl(v, content) ==
  orSentinel(content, <<"d","a","t","a",":","i","m","a","g","e">>)

\* the second argument of processResponse
defaultContentOf(v, content) ==
  CASE v = "gemini" -> orSentinel(content, ENCODED)
    [] v = "p010" -> orSentinel(content, ENCODEDPAYLOAD)
    [] OTHER -> orSentinel(content, HIDDEN)

\* processResponse called outside the try block: what it throws rejects the
\* promise
settleUncaught(v, content, outcome) ==
  IF outcome.thrown
  THEN [pc |-> "rejected", result |-> NoResult, steps |-> NoSteps]
  ELSE [pc |-> "resolved", result |-> outcome.value, steps |-> outcome.steps]

\* how the promise of performDeepAnalysis settles once processResponse has
\* returned or thrown inside the try block
settle(v, content, outcome) ==
  IF outcome.thrown
  THEN [pc |-> "resolved", result |-> catchResult(v, content, outcome.message),
        steps |-> NoSteps]
  ELSE [pc |-> "resolved", result |-> outcome.value, steps |-> outcome.steps]

\* p006 has no API_KEY check before the call
checksKey(v) == v # "p006"

(***************************************************************************)
(* State                                                                   *)
(***************************************************************************)
NumRequests == 2

Requests == 1..NumRequests

NoResponse == BareResponse("none")

Idle ==
  [pc |-> "idle", content |-> Null, response |-> NoResponse,
   result |-> NoResult, steps |-> NoSteps]

\* performDeepAnalysis(content, base64Image) up to its first await, or to
\* its return when the API key is missing. base64Image only adds a part to
\* the request sent upstream and is left out.
Start(i, content) ==
  /\ req[i].pc = "idle"
  /\ req' = [req EXCEPT ![i] =
       IF checksKey(variant) /\ ~apiKey
       THEN [Idle EXCEPT !.pc = "resolved", !.content = content,
                         !.result = keyMissingResult(variant, content)]
       ELSE [Idle EXCEPT !.pc = "awaiting", !.content = content]]
  /\ UNCHANGED <<variant, apiKey, probe, app, scanner>>

\* processResponse run with a payload kept in a variable of the module, which
\* any request in flight may have written last
RespondSharedPayload(i, resp) ==
  /\ req[i].pc = "awaiting"
  /\ apiKey
  /\ \E j \in DOMAIN req :
       /\ req[j].pc = "awaiting"
       /\ \E outcome \in processResponse(variant, resp,
                                         defaultContentOf(variant, req[j].content)) :
            LET done == settle(variant, req[j].content, outcome)
            IN req' = [req EXCEPT ![i] =
                 [pc |-> done.pc, content |-> req[i].content, response |-> resp,
                  result |-> done.result, steps |-> done.steps]]
  /\ UNCHANGED <<variant, apiKey, probe, app, scanner>>

\* generateContent resolves with resp: processResponse runs, and the catch
\* block if it throws
Respond(i, resp) ==
  /\ req[i].pc = "awaiting"
  /\ apiKey
  /\ \E outcome \in processResponse(variant, resp,
                                    defaultContentOf(variant, req[i].content)) :
       LET done == settle(variant, req[i].content, outcome)
       IN req' = [req EXCEPT ![i] =
            [pc |-> done.pc, content |-> req[i].content, response |-> resp,
             result |-> done.result, steps |-> done.steps]]
  /\ UNCHANGED <<variant, apiKey, probe, app, scanner>>

\* the GoogleGenAI constructor or generateContent throws an Error with the
\* given message (always so without an API key)
Fail(i, message) ==
  /\ req[i].pc = "awaiting"
  /\ req' = [req EXCEPT ![i] =
       [req[i] EXCEPT !.pc = "resolved",
                      !.result = catchResult(variant, req[i].content, message)]]
  /\ UNCHANGED <<variant, apiKey, probe, app, scanner>>

ErrorMessages == {"", "quota exceeded", "403 API_KEY_MISSING"}

(***************************************************************************)
(* Inputs                                                                  *)
(***************************************************************************)
\* how far below 0 and above 100 the numbers of an upstream response range
RawOver == 20

\* the numbers an upstream response holds: the ends of the range, every
\* twentieth value of [0, 100], and values close to each other, to the ends
\* of [0, 100] and to the override's floor and ceiling
RawNums ==
  {0 - RawOver, 100 + RawOver}
    \cup {n \in 0..100 : n % 20 = 0}
    \cup {5, 10, 30, 48, 50, 52, 85, 90, 95}

BITLY ==
  <<"b","i","t",".","l","y","/","a","b","c">>

EXAMPLE ==
  <<"e","x","a","m","p","l","e",".","o","r","g">>

VERIFYME ==
  <<"V","e","r","i","f","y",".","m","e">>

SCANPAGE ==
  <<"s","c","a","n",".","p","a","g","e","/","q">>

\* upper case, and two entries of the table at once
BITLYLOGIN ==
  <<"B","I","T",".","L","Y","/","L","o","g","i","n">>

\* the letters of an entry, not contiguous
BITXLY ==
  <<"b","i","t","-","l","y",".","t","-","c","o">>

\* content as the caller passes it: null, empty, or decoded text
Contents ==
  {Null, <<>>, BITLY, EXAMPLE, VERIFYME, SCANPAGE, BITLYLOGIN, BITXLY}

SomeActions == <<"Do not open the link">>

\* responses whose three probabilities are numbers
NumericResponses ==
  { ProbsResponse(Num(m), Num(f), Num(a)) : m, f, a \in RawNums }

JsFields == {Undefined, Str, Obj, Num(0), Num(50), Num(100)}

\* responses with fields that are missing or not numbers, responses with
\* the other fields set, and responses that are no JSON object
OddResponses ==
  { ProbsResponse(m, f, a) : m, f, a \in JsFields }
    \cup { ProbsResponse(Obj, Num(10), Num(90)),
           ProbsResponse(Num(50), Str, Num(20)) }
    \cup { Response("object", Num(m), Num(m), Num(10), level, assessment,
                    actions, original, chunks) :
             m \in {50, 80}, level \in {"", "LOW", "CRITICAL"},
             assessment \in {"", "Looks like phishing."},
             actions \in {NoList, List(<<>>), List(SomeActions)},
             original \in {<<>>, EXAMPLE}, chunks \in 0..1 }
    \cup { BareResponse(text) : text \in {"empty", "invalid", "null", "scalar"} }

\* responses without the official_or_authentic field
MissingAuthenticResponses ==
  { ProbsResponse(Num(m), Num(f), Undefined) : m, f \in RawNums }

Responses == NumericResponses \cup MissingAuthenticResponses \cup OddResponses


NoProbe == [s1 |-> 0, s2 |-> 0, l1 |-> "", l2 |-> ""]

(***************************************************************************)
(* Scanner: the camera stream and the capture button                       *)
(***************************************************************************)
\* how many times startCamera is called (the mount and the retries)
MaxStarts == 3

\* the component after its first render, before its effect has run.
\*   phase      "rendered", "mounted" or "unmounted"; videoRef.current and
\*              canvasRef.current are the elements while mounted, else null
\*   streamRef  streamRef.current: 0 for null, else the number of a stream
\*   videoSrc   videoRef.current.srcObject, likewise
\*   streams    every MediaStream getUserMedia returned: "live" or "stopped"
\*   pending    the getUserMedia promises not yet settled
\*   metadata   the stream whose loadedmetadata event is still to come
\*   plays      the play() promises not yet settled
\*   called     the calls of onScan and onDeepScan, each with the decoded
\*              text and with streamRef and the live streams at the call
InitialScanner ==
  [phase |-> "rendered", streamRef |-> 0, videoSrc |-> 0, cameraReady |-> FALSE,
   error |-> "", isCapturing |-> FALSE, streams |-> <<>>, pending |-> 0,
   metadata |-> 0, plays |-> 0, starts |-> 0, called |-> <<>>]

\* the streams whose tracks are not stopped
LiveStreams(sc) == { s \in 1..Len(sc.streams) : sc.streams[s] = "live" }

stopCamera(sc) ==
  [sc EXCEPT
     !.streams = [s \in 1..Len(sc.streams) |->
                    IF s = sc.streamRef THEN "stopped" ELSE sc.streams[s]],
     !.streamRef = 0,
     !.videoSrc = 0,
     !.cameraReady = FALSE]

\* startCamera up to its await of getUserMedia
startCamera(sc) ==
  LET stopped == stopCamera([sc EXCEPT !.error = "", !.cameraReady = FALSE])
  IN [stopped EXCEPT !.pending = @ + 1, !.starts = @ + 1]

\* useEffect: the effect runs after the first render
Mount ==
  /\ scanner.phase = "rendered"
  /\ scanner' = startCamera([scanner EXCEPT !.phase = "mounted"])
  /\ UNCHANGED <<variant, apiKey, req, probe, app>>

\* the retry button of the error overlay
Retry ==
  /\ scanner.phase = "mounted"
  /\ scanner.error # ""
  /\ scanner.starts < MaxStarts
  /\ scanner' = startCamera(scanner)
  /\ UNCHANGED <<variant, apiKey, req, probe, app>>

\* startCamera after its await, getUserMedia fulfilled with a new stream
getUserMediaResolves ==
  /\ scanner.pending > 0
  /\ LET stream == Len(scanner.streams) + 1
         held == [scanner EXCEPT !.pending = @ - 1,
                                 !.streams = Append(@, "live"),
                                 !.streamRef = stream]
     IN scanner' = IF scanner.phase = "mounted"
                   THEN [held EXCEPT !.videoSrc = stream, !.metadata = stream]
                   ELSE held
  /\ UNCHANGED <<variant, apiKey, req, probe, app>>

\* startCamera after its await, getUserMedia rejected: the catch block (a
\* state update of an unmounted component does nothing)
getUserMediaRejects ==
  /\ scanner.pending > 0
  /\ scanner' = IF scanner.phase = "mounted"
                THEN [scanner EXCEPT !.pending = @ - 1,
                        !.error = "Camera access denied.",
                        !.cameraReady = FALSE]
                ELSE [scanner EXCEPT !.pending = @ - 1]
  /\ UNCHANGED <<variant, apiKey, req, probe, app>>

\* onloadedmetadata: the video element has loaded its srcObject; play()
loadedMetadata ==
  /\ scanner.phase = "mounted"
  /\ scanner.metadata # 0
  /\ scanner.videoSrc = scanner.metadata
  /\ scanner' = [scanner EXCEPT !.metadata = 0, !.plays = @ + 1]
  /\ UNCHANGED <<variant, apiKey, req, probe, app>>

\* play() fulfilled: the element still plays its srcObject
playResolves ==
  /\ scanner.plays > 0
  /\ scanner.phase = "mounted"
  /\ scanner.videoSrc # 0
  /\ scanner' = [scanner EXCEPT !.plays = @ - 1, !.cameraReady = TRUE]
  /\ UNCHANGED <<variant, apiKey, req, probe, app>>

\* play() rejected: blocked by the browser, or aborted by a new srcObject
playRejects ==
  /\ scanner.plays > 0
  /\ scanner' = IF scanner.phase = "mounted"
                THEN [scanner EXCEPT !.plays = @ - 1,
                        !.error = "Playback blocked by browser policy."]
                ELSE [scanner EXCEPT !.plays = @ - 1]
  /\ UNCHANGED <<variant, apiKey, req, probe, app>>

\* handleCapture with onScan or onDeepScan called before stopCamera
handleCaptureKeepsCamera(decoded) ==
  /\ scanner.phase = "mounted"
  /\ scanner.cameraReady
  /\ ~scanner.isCapturing
  /\ LET capturing == [scanner EXCEPT !.isCapturing = TRUE]
     IN scanner' = stopCamera(
          [capturing EXCEPT !.called = Append(@,
             [fn |-> IF decoded # <<>> THEN "onScan" ELSE "onDeepScan",
              decoded |-> decoded, streamRef |-> capturing.streamRef,
              live |-> LiveStreams(capturing)])])
  /\ UNCHANGED <<variant, apiKey, req, probe, app>>

\* a click on the capture button, which is disabled unless cameraReady and
\* not isCapturing; decoded is code.data, <<>> when jsQR finds no code or an
\* empty text (the 2d context of the component's own canvas is never null)
handleCapture(decoded) ==
  /\ scanner.phase = "mounted"
  /\ scanner.cameraReady
  /\ ~scanner.isCapturing
  /\ LET stopped == stopCamera([scanner EXCEPT !.isCapturing = TRUE])
     IN scanner' = [stopped EXCEPT !.called = Append(@,
          [fn |-> IF decoded # <<>> THEN "onScan" ELSE "onDeepScan",
           decoded |-> decoded, streamRef |-> stopped.streamRef,
           live |-> LiveStreams(stopped)])]
  /\ UNCHANGED <<variant, apiKey, req, probe, app>>

\* the parent stops rendering the Scanner (Cancel, the header logo, or the
\* result view after a capture): the effect's cleanup runs stopCamera
Unmount ==
  /\ scanner.phase = "mounted"
  /\ scanner' = [stopCamera(scanner) EXCEPT !.phase = "unmounted"]
  /\ UNCHANGED <<variant, apiKey, req, probe, app>>

Decoded == {<<>>, BITLY, EXAMPLE}

NextScanner ==
  \/ Mount
  \/ Retry
  \/ getUserMediaResolves
  \/ getUserMediaRejects
  \/ loadedMetadata
  \/ playResolves
  \/ playRejects
  \/ \E decoded \in Decoded : handleCapture(decoded)
  \/ Unmount


(***************************************************************************)
(* App: the QRState and the runAnalysis calls in flight                    *)
(***************************************************************************)
\* how many runAnalysis calls are made
MaxCalls == 3

\* base64 image data: null, or the data URL of an upload or a captured frame
NullImage == "null"

Images == {"data:image/png;base64,AAAA", "data:image/png;base64,BBBB"}

\* state.analysis null; a result is the value performDeepAnalysis(content,
\* base64) of call number call resolved with
NoAnalysis == [call |-> 0, content |-> Null, base64 |-> NullImage]

\* the argument of useState and of setState in resetState
InitialQRState ==
  [view |-> "home", decodedContent |-> Null, base64Image |-> NullImage,
   analysis |-> NoAnalysis, loading |-> FALSE, error |-> ""]

\* calls: the runAnalysis calls made so far, in order, each awaiting
\* performDeepAnalysis or done
InitialApp == [state |-> InitialQRState, calls |-> <<>>]

\* the header logo, the Scanner's Cancel and the result view's buttons
resetState ==
  /\ app' = [app EXCEPT !.state = InitialQRState]
  /\ UNCHANGED <<variant, apiKey, req, probe, scanner>>

\* the Live Analysis button of the home view
openScanner ==
  /\ app.state.view = "home"
  /\ app' = [app EXCEPT !.state.view = "scan"]
  /\ UNCHANGED <<variant, apiKey, req, probe, scanner>>

\* the arguments runAnalysis gets: from handleFileUpload in the home view
\* (the decoded text or null, and the image), from the Scanner's onScan (text)
\* and onDeepScan (image) in the scan view
RunArguments(view) ==
  CASE view = "home" ->
         { <<content, base64>> : content \in {Null, BITLY, EXAMPLE},
                                  base64 \in Images }
    [] view = "scan" ->
         { <<content, NullImage>> : content \in {BITLY, EXAMPLE} }
           \cup { <<Null, base64>> : base64 \in Images }
    [] OTHER -> {}

\* runAnalysis(content, base64) up to its await
runAnalysis(content, base64) ==
  /\ Len(app.calls) < MaxCalls
  /\ <<content, base64>> \in RunArguments(app.state.view)
  /\ app' = [state |-> [app.state EXCEPT !.loading = TRUE, !.view = "result",
                                          !.decodedContent = content,
                                          !.base64Image = base64, !.error = ""],
             calls |-> Append(app.calls,
                         [content |-> content, base64 |-> base64,
                          pc |-> "awaiting"])]
  /\ UNCHANGED <<variant, apiKey, req, probe, scanner>>

\* performDeepAnalysis catches what it throws, so its promise is fulfilled
Settlements == {"fulfilled"}

\* runAnalysis call k after its await: the try branch for a fulfilled
\* promise, the catch branch for a rejected one
runAnalysisResumes(k, settlement) ==
  /\ k \in 1..Len(app.calls)
  /\ app.calls[k].pc = "awaiting"
  /\ app' = [state |->
               IF settlement = "fulfilled"
               THEN [app.state EXCEPT
                       !.analysis = [call |-> k, content |-> app.calls[k].content,
                                     base64 |-> app.calls[k].base64],
                       !.loading = FALSE]
               ELSE [app.state EXCEPT
                       !.error = "The forensic engine encountered a critical disruption.",
                       !.loading = FALSE],
             calls |-> [app.calls EXCEPT ![k].pc = "done"]]
  /\ UNCHANGED <<variant, apiKey, req, probe, scanner>>

InitApp ==
  /\ variant = "gemini"
  /\ apiKey = TRUE
  /\ req = [i \in {1} |-> Idle]
  /\ probe = NoProbe
  /\ app = InitialApp
  /\ scanner = InitialScanner

NextApp ==
  \/ resetState
  \/ openScanner
  \/ \E content \in {Null, BITLY, EXAMPLE}, base64 \in Images \cup {NullImage} :
       runAnalysis(content, base64)
  \/ \E k \in 1..MaxCalls, settlement \in Settlements :
       runAnalysisResumes(k, settlement)

SpecApp == InitApp /\ [][NextApp]_vars

\* one Scanner from its first render to its unmount
InitScanner == InitApp

SpecScanner == InitScanner /\ [][NextScanner]_vars

(***************************************************************************)
(* One analysis request                                                    *)
(***************************************************************************)
\* one call of performDeepAnalysis
Init ==
  /\ variant \in Variants
  /\ apiKey \in BOOLEAN
  /\ req = [i \in {1} |-> Idle]
  /\ probe = NoProbe
  /\ app = InitialApp
  /\ scanner = InitialScanner

Next ==
  \/ req[1].pc = "idle" /\ \E content \in Contents : Start(1, content)
  \/ req[1].pc = "awaiting" /\ \E resp \in Responses : Respond(1, resp)
  \/ req[1].pc = "awaiting" /\ \E message \in ErrorMessages : Fail(1, message)

Spec == Init /\ [][Next]_vars

(***************************************************************************)
(* Requests in flight at the same time, over a few contents and responses  *)
(***************************************************************************)
SmallContents == {Null, BITLY, EXAMPLE}

SmallResponses ==
  { ProbsResponse(Num(20), Num(20), Num(20)),
    ProbsResponse(Num(100), Num(100), Num(100)),
    ProbsResponse(Str, Num(50), Num(50)),
    ProbsResponse(Num(20), Num(0), Num(0)),
    ProbsResponse(Num(30), Num(0), Num(0)),
    Response("object", Num(80), Num(80), Num(10), "LOW", "", NoList, <<>>, 0),
    Response("object", Num(80), Num(80), Num(10), "CRITICAL",
             "Looks like phishing.", List(SomeActions), EXAMPLE, 1),
    BareResponse("invalid") }

NextConcurrent ==
  \E i \in Requests :
    \/ req[i].pc = "idle" /\ \E content \in SmallContents : Start(i, content)
    \/ req[i].pc = "awaiting" /\ \E resp \in SmallResponses : Respond(i, resp)
    \/ req[i].pc = "awaiting" /\ Fail(i, "quota exceeded")

InitConcurrent ==
  /\ variant \in Variants
  /\ apiKey \in BOOLEAN
  /\ req = [i \in Requests |-> Idle]
  /\ probe = NoProbe
  /\ app = InitialApp
  /\ scanner = InitialScanner

SpecConcurrent == InitConcurrent /\ [][NextConcurrent]_vars

(***************************************************************************)
(* The level classifier on its own: two scores and their levels            *)
(***************************************************************************)
MaxScore == 100

InitLevel ==
  /\ variant \in {"p009", "p010", "p006"}
  /\ apiKey = TRUE
  /\ req = [i \in {1} |-> Idle]
  /\ \E s1, s2 \in 0..MaxScore :
       probe = [s1 |-> s1, s2 |-> s2, l1 |-> "", l2 |-> ""]
  /\ app = InitialApp
  /\ scanner = InitialScanner

Classify ==
  /\ probe.l1 = ""
  /\ probe' = [probe EXCEPT !.l1 = levelOf(variant, Num(probe.s1)),
                            !.l2 = levelOf(variant, Num(probe.s2))]
  /\ UNCHANGED <<variant, apiKey, req, app, scanner>>

NextLevel == Classify

SpecLevel == InitLevel /\ [][NextLevel]_vars

(***************************************************************************)
(* Properties                                                              *)
(***************************************************************************)
\* request i resolved with the result processResponse returned
Processed(i) ==
  /\ req[i].pc = "resolved"
  /\ req[i].response # NoResponse
  /\ ~parseThrows(req[i].response)

\* the payload text the override step looked at
PayloadOf(i) == defaultContentOf(variant, req[i].content)

Flagged(i) == hasBadPattern(variant, PayloadOf(i))

\* the largest pairwise difference of a triple of numbers
Spread(probs) ==
  LET m == probs.malicious.n
      f == probs.fake.n
      a == probs.authentic.n
      abs(x) == IF x < 0 THEN 0 - x ELSE x
      max(x, y) == IF x >= y THEN x ELSE y
  IN max(max(abs(m - f), abs(m - a)), abs(f - a))

\* every component is a number from 0 to 100
InRange(probs) ==
  /\ AllNum(probs)
  /\ probs.malicious.n \in 0..100
  /\ probs.fake.n \in 0..100
  /\ probs.authentic.n \in 0..100

\* C1: in the variants with threshold 30 (gemini, step 15, and p010, step
\* 20), the triple ensureDimensionalSeparation returns has a largest
\* pairwise difference of at least 30, for every input triple with
\* components from 0 to 100, the ends 0 and 100 and three equal values
\* included.
C1_SeparationAtLeast30 ==
  \A i \in DOMAIN req :
    (/\ Processed(i)
     /\ variant \in {"gemini", "p010"}
     /\ InRange(req[i].steps.overridden))
      => /\ AllNum(req[i].steps.separated)
         /\ Spread(req[i].steps.separated) >= 30

\* C2: for a payload with a pattern-table entry, applyHeuristicOverrides
\* returns fake = 100, authentic = min(raw.authentic, 5) and malicious =
\* max(raw.malicious, floor), floor 90 in p009 and 85 in p006, for every raw
\* triple of numbers.
C2_OverrideValues ==
  \A i \in DOMAIN req :
    (/\ Processed(i)
     /\ variant \in {"p009", "p006"}
     /\ Flagged(i)
     /\ AllNum(req[i].steps.extracted))
      => LET raw == req[i].steps.extracted
             out == req[i].steps.overridden
             floor == IF variant = "p009" THEN 90 ELSE 85
         IN /\ out.fake = Num(100)
            /\ out.authentic =
                 Num(IF raw.authentic.n < 5 THEN raw.authentic.n ELSE 5)
            /\ out.authentic.n <= 5
            /\ out.malicious =
                 Num(IF raw.malicious.n > floor THEN raw.malicious.n ELSE floor)

\* a flagged payload whose raw triple 20/20/20 the override rewrote
C2_Witness ==
  \E i \in DOMAIN req :
    /\ Processed(i)
    /\ variant = "p006"
    /\ Flagged(i)
    /\ req[i].steps.extracted = Probs(Num(20), Num(20), Num(20))
    /\ req[i].steps.overridden = Probs(Num(85), Num(100), Num(5))

\* C3: for every triple of numbers that reaches the composite calculator,
\* negative components and components above 100 included, riskScore is an
\* integer from 0 to 100.
C3_ScoreInRange ==
  \A i \in DOMAIN req :
    (Processed(i) /\ AllNum(req[i].steps.separated))
      => /\ IsNum(req[i].result.riskScore)
         /\ req[i].result.riskScore.n \in 0..100

\* a triple with a component above 100 and a negative one, clamped to 100
C3_Witness ==
  \E i \in DOMAIN req :
    /\ Processed(i)
    /\ req[i].steps.separated.malicious.n > 100
    /\ req[i].steps.separated.authentic.n < 0
    /\ req[i].result.riskScore = Num(100)

\* C4: in p009, for every payload with a pattern-table entry and every raw
\* triple of numbers, processResponse returns riskLevel HIGH or CRITICAL.
C4_FlaggedIsHighOrCritical ==
  \A i \in DOMAIN req :
    (/\ Processed(i)
     /\ variant = "p009"
     /\ Flagged(i)
     /\ AllNum(req[i].steps.extracted))
      => req[i].result.riskLevel \in {"HIGH", "CRITICAL"}

\* the payload bit.ly/abc with the raw triple 20/20/20
C4_Witness ==
  \E i \in DOMAIN req :
    /\ Processed(i)
    /\ variant = "p009"
    /\ req[i].content = BITLY
    /\ req[i].steps.extracted = Probs(Num(20), Num(20), Num(20))
    /\ req[i].result.riskLevel \in {"HIGH", "CRITICAL"}

\* C5: the riskLevel of a result of processResponse depends on its
\* riskScore alone: two results with the same riskScore have the same
\* riskLevel, whatever risk_level text the responses held.
C5_LevelIsFunctionOfScore ==
  \A i, j \in DOMAIN req :
    (/\ Processed(i)
     /\ Processed(j)
     /\ req[i].result.riskScore = req[j].result.riskScore)
      => req[i].result.riskLevel = req[j].result.riskLevel

Rank(level) == CHOOSE r \in 1..Len(RiskLevels) : RiskLevels[r] = level

\* C6: the score-to-level mapping is monotonic: for scores s1 < s2 from 0
\* to 100, level(s1) is not more severe than level(s2) in the order LOW <
\* MODERATE < SUSPICIOUS < HIGH < CRITICAL.
C6_LevelMonotonic ==
  (probe.l1 # "" /\ probe.s1 < probe.s2)
    => Rank(probe.l1) <= Rank(probe.l2)

\* two classified scores on the two sides of a band edge
C6_Witness ==
  /\ probe.l1 = "SUSPICIOUS"
  /\ probe.l2 = "HIGH"
  /\ probe.s2 = probe.s1 + 1

\* an AnalysisResult with every field filled
Complete(result) ==
  /\ IsNum(result.riskScore)
  /\ result.riskScore.n \in 0..100
  /\ \E r \in 1..Len(RiskLevels) : RiskLevels[r] = result.riskLevel
  /\ AllNum(result.probabilities)
  /\ result.explanation # ""
  /\ result.recommendations # <<>>
  /\ result.originalContent # <<>>
  /\ result.originalContent # Null

\* request i ended without a result of processResponse: the API key was
\* missing, the remote call threw, or the text was no JSON or null
Degraded(i) == req[i].pc \notin {"idle", "awaiting"} /\ ~Processed(i)

\* the fixed score, level and probabilities of the fallback results
FallbackValues(v) ==
  CASE v = "gemini" ->
         { <<Num(0), "LOW", Probs(Num(0), Num(0), Num(0))>>,
           <<Num(50), "SUSPICIOUS", Probs(Num(0), Num(0), Num(0))>> }
    [] v = "p010" ->
         { <<Num(0), "LOW", Probs(Num(0), Num(0), Num(0))>>,
           <<Num(95), "CRITICAL", Probs(Num(90), Num(100), Num(5))>> }
    [] v = "p009" ->
         { <<Num(0), "LOW", Probs(Num(0), Num(0), Num(0))>>,
           <<Num(100), "CRITICAL", Probs(Num(100), Num(100), Num(0))>> }
    [] OTHER ->
         { <<Num(100), "CRITICAL", Probs(Num(100), Num(100), Num(0))>> }

\* C8: performDeepAnalysis never fails towards its caller: with the API key
\* missing, with the remote call throwing, and with a response text that is
\* no JSON or no object, it resolves to a complete AnalysisResult with a
\* fixed score, level and probabilities and a non-empty explanation and
\* recommendation list.
C8_AlwaysResolves ==
  \A i \in DOMAIN req :
    /\ req[i].pc \in {"idle", "awaiting", "resolved"}
    /\ Degraded(i) =>
         /\ Complete(req[i].result)
         /\ <<req[i].result.riskScore, req[i].result.riskLevel,
              req[i].result.probabilities>> \in FallbackValues(variant)
    /\ (Processed(i) /\ req[i].response.text = "scalar") =>
         Complete(req[i].result)

\* a response text that is not JSON, answered with the engine-error result
C8_Witness ==
  \E i \in DOMAIN req :
    /\ variant = "gemini"
    /\ req[i].pc = "resolved"
    /\ req[i].response.text = "invalid"
    /\ req[i].result.riskScore = Num(50)
    /\ req[i].result.riskLevel = "SUSPICIOUS"

\* C9: a probability field of the response that holds a non-empty string
\* or an object counts as 0 in the final triple and in the score.
C9_NonNumericBecomesZero ==
  \A i \in DOMAIN req :
    (/\ Processed(i)
     /\ variant = "gemini"
     /\ req[i].response.malicious_intent \in {Str, Obj}
     /\ req[i].response.fake_or_pseudo_pattern = Num(50)
     /\ req[i].response.official_or_authentic = Num(50))
      => /\ req[i].steps.extracted.malicious = Num(0)
         /\ IsNum(req[i].result.probabilities.malicious)
         /\ IsNum(req[i].result.riskScore)

\* the integers nearest to x / unit (two of them on a tie)
Nearest(x, unit) ==
  { r \in ((x \div unit) - 1)..((x \div unit) + 1) :
      2 * (r * unit - x) \in (0 - unit)..unit }

\* the clamped, rounded weighted sum of malicious and fake alone
ScoresWithoutAuthentic(v, m, f) ==
  CASE v = "gemini" -> Nearest(Clamp(0, 1000, 5 * m + 4 * f), 10)
    [] v = "p010" ->
         { Clamp(0, 100, r) : r \in Nearest((6 * m + 5 * f) * 11, 100) }
    [] OTHER ->
         { Clamp(0, 100, r) : r \in Nearest((8 * m + 7 * f) * 135, 1000) }

\* C10: when the response lacks the authentic field and its malicious and
\* fake values are numbers from 0 to 100, the authentic component of the
\* final triple is 0 after the whole pipeline, and riskScore is the clamped,
\* rounded weighted sum of the final malicious and fake values alone.
C10_MissingAuthenticIsZero ==
  \A i \in DOMAIN req :
    (/\ Processed(i)
     /\ req[i].response.text = "object"
     /\ req[i].response.official_or_authentic = Undefined
     /\ IsNum(req[i].response.malicious_intent)
     /\ req[i].response.malicious_intent.n \in 0..100
     /\ IsNum(req[i].response.fake_or_pseudo_pattern)
     /\ req[i].response.fake_or_pseudo_pattern.n \in 0..100)
      => LET final == req[i].result.probabilities
         IN /\ final.authentic = Num(0)
            /\ AllNum(final)
            /\ IsNum(req[i].result.riskScore)
            /\ req[i].result.riskScore.n \in
                 ScoresWithoutAuthentic(variant, final.malicious.n,
                                        final.fake.n)

\* no authentic field, close malicious and fake values: the separation step
\* ran and authentic, the lowest, stayed at 0
C10_Witness ==
  \E i \in DOMAIN req :
    /\ Processed(i)
    /\ variant = "gemini"
    /\ req[i].response.official_or_authentic = Undefined
    /\ req[i].response.malicious_intent = Num(10)
    /\ req[i].response.fake_or_pseudo_pattern = Num(10)
    /\ req[i].result.probabilities = Probs(Num(25), Num(10), Num(0))
    /\ req[i].result.riskScore \in {Num(16), Num(17)}

C12_FlaggedNeverAuthentic ==
  \A i \in DOMAIN req :
    (/\ Processed(i)
     /\ variant = "p009"
     /\ Flagged(i)
     /\ AllNum(req[i].steps.extracted))
      => LET final == req[i].result.probabilities
         IN /\ AllNum(final)
            /\ final.authentic.n < final.malicious.n
            /\ final.authentic.n < final.fake.n

\* a flagged payload whose raw triple 0/0/100 the upstream model called
\* authentic
C12_Witness ==
  \E i \in DOMAIN req :
    /\ Processed(i)
    /\ variant = "p009"
    /\ req[i].content = VERIFYME
    /\ req[i].steps.extracted = Probs(Num(0), Num(0), Num(100))
    /\ req[i].result.probabilities = Probs(Num(90), Num(100), Num(0))

\* C13: in every variant of ensureDimensionalSeparation, a triple of numbers
\* from 0 to 100 whose largest pairwise difference meets the variant's
\* threshold (30 in gemini and p010, 40 in p009) is returned with its three
\* components unchanged.
C13_PassThroughAtThreshold ==
  \A i \in DOMAIN req :
    (/\ Processed(i)
     /\ variant \in {"gemini", "p010", "p009"}
     /\ InRange(req[i].steps.overridden)
     /\ Spread(req[i].steps.overridden) >= SeparationThreshold(variant))
      => req[i].steps.separated = req[i].steps.overridden

\* the step of ensureDimensionalSeparation applied to the entries hi and lo
\* of a triple of numbers
Redistributed(v, probs, hi, lo) ==
  [probs EXCEPT
     ![hi] = Num(IF probs[hi].n + SeparationStep(v) > 100 THEN 100
                 ELSE probs[hi].n + SeparationStep(v)),
     ![lo] = Num(IF probs[lo].n - SeparationStep(v) < 0 THEN 0
                 ELSE probs[lo].n - SeparationStep(v))]

\* C14: whenever ensureDimensionalSeparation modifies a triple of numbers, it
\* raises a dimension holding the maximum by the variant's step, capped at
\* 100, lowers a dimension holding the minimum by the same step, floored at
\* 0, and leaves the third dimension at its input value; for 48/50/52
\* authentic goes up and malicious goes down.
C14_RaisesMaxLowersMin ==
  \A i \in DOMAIN req :
    (/\ Processed(i)
     /\ variant \in {"gemini", "p010", "p009"}
     /\ AllNum(req[i].steps.overridden)
     /\ req[i].steps.separated # req[i].steps.overridden)
      => LET in == req[i].steps.overridden
             out == req[i].steps.separated
             K == {"malicious", "fake", "authentic"}
         IN /\ \E hi, lo \in K :
                 /\ hi # lo
                 /\ \A key \in K : in[key].n <= in[hi].n
                 /\ \A key \in K : in[key].n >= in[lo].n
                 /\ out = Redistributed(variant, in, hi, lo)
                 /\ \A mid \in K \ {hi, lo} : out[mid] = in[mid]
            /\ in = Probs(Num(48), Num(50), Num(52))
                 => /\ out.authentic.n > 52
                    /\ out.malicious.n < 48
                    /\ out.fake = Num(50)

\* 48/50/52 in geminiService.ts: authentic up by 15, malicious down by 15
C14_Witness ==
  \E i \in DOMAIN req :
    /\ Processed(i)
    /\ variant = "gemini"
    /\ req[i].steps.overridden = Probs(Num(48), Num(50), Num(52))
    /\ req[i].steps.separated = Probs(Num(33), Num(50), Num(67))

\* the first dimension, in the order malicious, fake, authentic, that holds
\* the largest value, and the last one that holds the smallest
FirstHighest(probs) ==
  Keys[CHOOSE i \in 1..3 :
         /\ \A j \in 1..3 : probs[Keys[j]].n <= probs[Keys[i]].n
         /\ \A j \in 1..(i - 1) : probs[Keys[j]].n < probs[Keys[i]].n]

LastLowest(probs) ==
  Keys[CHOOSE i \in 1..3 :
         /\ \A j \in 1..3 : probs[Keys[j]].n >= probs[Keys[i]].n
         /\ \A j \in (i + 1)..3 : probs[Keys[j]].n > probs[Keys[i]].n]

\* C15: ties in ensureDimensionalSeparation are resolved by the fixed order
\* malicious, fake, authentic alone: of the dimensions holding the largest
\* value the first in that order is raised, of those holding the smallest the
\* last is lowered; with three equal values malicious is raised and authentic
\* lowered, with malicious and fake tied for highest malicious is raised, with
\* fake and authentic tied for lowest authentic is lowered.
C15_TieBreakOrder ==
  \A i \in DOMAIN req :
    (/\ Processed(i)
     /\ variant \in {"gemini", "p010", "p009"}
     /\ AllNum(req[i].steps.overridden)
     /\ req[i].steps.separated # req[i].steps.overridden)
      => LET in == req[i].steps.overridden
             out == req[i].steps.separated
         IN /\ out = Redistributed(variant, in, FirstHighest(in), LastLowest(in))
            /\ (in.malicious = in.fake /\ in.fake = in.authentic)
                 => out = Redistributed(variant, in, "malicious", "authentic")
            /\ (in.malicious = in.fake /\ in.authentic.n < in.fake.n)
                 => out.malicious = Redistributed(variant, in, "malicious",
                                                  "authentic").malicious
            /\ (in.fake = in.authentic /\ in.malicious.n > in.fake.n)
                 => out.authentic = Redistributed(variant, in, "malicious",
                                                  "authentic").authentic

\* three equal values: malicious raised, authentic lowered, fake kept
C15_Witness ==
  \E i \in DOMAIN req :
    /\ Processed(i)
    /\ variant = "p010"
    /\ req[i].steps.overridden = Probs(Num(50), Num(50), Num(50))
    /\ req[i].steps.separated = Probs(Num(70), Num(50), Num(30))

\* two characters that are the same letter in either case
SameLetter(a, b) ==
  \/ a = b
  \/ a \in DOMAIN UpperToLower /\ UpperToLower[a] = b
  \/ b \in DOMAIN UpperToLower /\ UpperToLower[b] = a

\* p occurs in s as a contiguous run of characters, case disregarded
ContainsIgnoringCase(s, p) ==
  \E i \in 0..(Len(s) - Len(p)) : \A k \in 1..Len(p) : SameLetter(s[i + k], p[k])

\* the entries of the variant's pattern table that occur in the payload
Matches(v, payload) ==
  { j \in 1..Len(badPatterns(v)) : ContainsIgnoringCase(payload, badPatterns(v)[j]) }

\* C16: when the payload holds no entry of the pattern table,
\* applyHeuristicOverrides returns the raw triple with malicious, fake and
\* authentic unchanged, whatever the three values are.
C16_UnflaggedUnchanged ==
  \A i \in DOMAIN req :
    (/\ Processed(i)
     /\ variant \in {"p009", "p006"}
     /\ Matches(variant, PayloadOf(i)) = {})
      => req[i].steps.overridden = req[i].steps.extracted

\* Verify.me in p006, whose table has no entry verify: 20/20/20 stays
C16_Witness ==
  \E i \in DOMAIN req :
    /\ Processed(i)
    /\ variant = "p006"
    /\ req[i].content = VERIFYME
    /\ req[i].steps.extracted = Probs(Num(20), Num(20), Num(20))
    /\ req[i].steps.overridden = Probs(Num(20), Num(20), Num(20))
    /\ req[i].result.probabilities = Probs(Num(20), Num(20), Num(20))

\* C17: applyHeuristicOverrides flags a payload (rewrites the triple: seen on
\* every raw triple whose fake value is not already 100) exactly when the
\* payload, letter case disregarded, contains at least one entry of the
\* pattern table as a contiguous substring, whether one entry matches or
\* several.
C17_FlagIffSubstringIgnoringCase ==
  \A i \in DOMAIN req :
    (/\ Processed(i)
     /\ variant \in {"p009", "p006"}
     /\ req[i].steps.extracted.fake # Num(100))
      => (req[i].steps.overridden # req[i].steps.extracted
            <=> Matches(variant, PayloadOf(i)) # {})

\* BIT.LY/Login: upper case and two entries of the table
C17_Witness ==
  \E i \in DOMAIN req :
    /\ Processed(i)
    /\ variant = "p009"
    /\ req[i].content = BITLYLOGIN
    /\ Cardinality(Matches(variant, PayloadOf(i))) = 2
    /\ req[i].steps.extracted = Probs(Num(20), Num(20), Num(20))
    /\ req[i].steps.overridden = Probs(Num(90), Num(100), Num(5))

\* C18: when performDeepAnalysis is called with a null or empty payload, the
\* sentinel text that stands for it holds no entry of the pattern table and
\* the raw triple passes the override step unmodified.
C18_NoPayloadNotFlagged ==
  \A i \in DOMAIN req :
    (/\ Processed(i)
     /\ variant \in {"p009", "p006"}
     /\ req[i].content \in {Null, <<>>})
      => /\ Matches(variant, PayloadOf(i)) = {}
         /\ req[i].steps.overridden = req[i].steps.extracted

\* a null payload: HIDDEN_IMAGE_DATA is inspected and 20/20/20 passes
C18_Witness ==
  \E i \in DOMAIN req :
    /\ Processed(i)
    /\ variant = "p009"
    /\ req[i].content = Null
    /\ req[i].result.originalContent = HIDDEN
    /\ req[i].steps.extracted = Probs(Num(20), Num(20), Num(20))
    /\ req[i].steps.overridden = Probs(Num(20), Num(20), Num(20))

\* C19: in p009, for a payload with a pattern-table entry, the triple that
\* applyHeuristicOverrides produced already satisfies the separation check:
\* ensureDimensionalSeparation returns it unchanged.
C19_OverrideSatisfiesSeparation ==
  \A i \in DOMAIN req :
    (/\ Processed(i)
     /\ variant = "p009"
     /\ Flagged(i)
     /\ AllNum(req[i].steps.extracted))
      => req[i].steps.separated = req[i].steps.overridden

\* the band of a score from 0 to 100: twenty scores each, the last one
\* reaching to 100
Band(score) == RiskLevels[(IF score >= 80 THEN 4 ELSE score \div 20) + 1]

\* C20: the classifier of p009 and p006 gives every integer score from 0 to
\* 100 exactly one level: LOW below 20, MODERATE for 20..39, SUSPICIOUS for
\* 40..59, HIGH for 60..79 and CRITICAL from 80 on.
C20_FiveBands ==
  (probe.l1 # "" /\ variant \in {"p009", "p006"})
    => /\ probe.l1 = Band(probe.s1)
       /\ probe.l2 = Band(probe.s2)
       /\ probe.l1 = "LOW" <=> probe.s1 < 20
       /\ probe.l1 = "MODERATE" <=> probe.s1 \in 20..39
       /\ probe.l1 = "SUSPICIOUS" <=> probe.s1 \in 40..59
       /\ probe.l1 = "HIGH" <=> probe.s1 \in 60..79
       /\ probe.l1 = "CRITICAL" <=> probe.s1 >= 80

\* the two scores at the edge between HIGH and CRITICAL
C20_Witness ==
  /\ variant = "p006"
  /\ probe.s1 = 79
  /\ probe.l1 = "HIGH"
  /\ probe.s2 = 80
  /\ probe.l2 = "CRITICAL"

\* 1.35 * (0.8 m + 0.7 f - 0.5 a) in thousandths
Scaled009(probs) ==
  (8 * probs.malicious.n + 7 * probs.fake.n - 5 * probs.authentic.n) * 135

\* the score in the order scale, clamp to [0, 100], round
ClampThenRound009(probs) == Nearest(Clamp(0, 100000, Scaled009(probs)), 1000)

\* C21: for every triple of integers, the riskScore p009 computes by
\* rounding 1.35 * (0.8 m + 0.7 f - 0.5 a) and then clamping to [0, 100] is
\* the value of the order scale, clamp to [0, 100], round.
C21_RoundClampOrder ==
  \A i \in DOMAIN req :
    (/\ Processed(i)
     /\ variant = "p009"
     /\ AllNum(req[i].steps.separated))
      => /\ IsNum(req[i].result.riskScore)
         /\ req[i].result.riskScore.n \in ClampThenRound009(req[i].steps.separated)
         /\ \A r \in ClampThenRound009(req[i].steps.separated) :
              Num(r) \in scoreOutcomes(variant, req[i].steps.separated)

\* a scaled sum below 0, where the lower clamp acts in both orders
C21_Witness ==
  \E i \in DOMAIN req :
    /\ Processed(i)
    /\ variant = "p009"
    /\ AllNum(req[i].steps.separated)
    /\ Scaled009(req[i].steps.separated) < 0
    /\ req[i].result.riskScore = Num(0)

\* the results performDeepAnalysis can return when it runs alone with the
\* payload content and the remote outcome resp (NoResponse: the call threw)
AloneResults(v, key, content, resp) ==
  IF checksKey(v) /\ ~key THEN {keyMissingResult(v, content)}
  ELSE IF resp = NoResponse
       THEN {catchResult(v, content, message) : message \in ErrorMessages}
       ELSE {settle(v, content, outcome).result :
               outcome \in processResponse(v, resp, defaultContentOf(v, content))}

\* C22: two performDeepAnalysis requests in flight at the same time are
\* independent: in every interleaving of their starts and of the arrivals of
\* their remote responses, each request returns the AnalysisResult it would
\* return alone with the same payload and the same remote response.
C22_RequestsIndependent ==
  \A i \in DOMAIN req :
    req[i].pc = "resolved"
      => req[i].result \in
           AloneResults(variant, apiKey, req[i].content, req[i].response)

\* two requests with different payloads and different responses, both
\* answered
C22_Witness ==
  /\ variant = "p009"
  /\ Processed(1)
  /\ Processed(2)
  /\ req[1].content = BITLY
  /\ req[2].content = EXAMPLE
  /\ req[1].response # req[2].response
  /\ req[1].result.originalContent = BITLY
  /\ req[2].result.originalContent = EXAMPLE

\* C23: every AnalysisResult performDeepAnalysis of geminiService.ts returns,
\* built by processResponse from a triple of numbers from 0 to 100 or by
\* getErrorResult for a missing API key or an engine error, carries
\* probabilities whose largest pairwise difference is at least 30.
C23_EveryResultDelta30 ==
  \A i \in DOMAIN req :
    (/\ variant = "gemini"
     /\ req[i].pc = "resolved"
     /\ Processed(i) => InRange(req[i].steps.extracted))
      => /\ AllNum(req[i].result.probabilities)
         /\ Spread(req[i].result.probabilities) >= 30

\* C24: in p009 and p006, for every payload with a pattern-table entry and
\* every raw triple with components from 0 to 100, processResponse returns
\* riskScore 100 and riskLevel CRITICAL.
C24_FlaggedScores100 ==
  \A i \in DOMAIN req :
    (/\ Processed(i)
     /\ variant \in {"p009", "p006"}
     /\ Flagged(i)
     /\ InRange(req[i].steps.extracted))
      => /\ req[i].result.riskScore = Num(100)
         /\ req[i].result.riskLevel = "CRITICAL"

\* scan.page/q in p006 with a raw triple the upstream model called authentic
C24_Witness ==
  \E i \in DOMAIN req :
    /\ Processed(i)
    /\ variant = "p006"
    /\ req[i].content = SCANPAGE
    /\ req[i].steps.extracted = Probs(Num(0), Num(0), Num(100))
    /\ req[i].result.riskScore = Num(100)
    /\ req[i].result.riskLevel = "CRITICAL"

\* C25: in geminiService.ts, with fake and authentic held fixed, a larger raw
\* malicious value never yields a smaller final riskScore, for raw triples
\* of integers from 0 to 100.
C25_ScoreMonotoneInMalicious ==
  \A i, j \in DOMAIN req :
    (/\ variant = "gemini"
     /\ Processed(i)
     /\ Processed(j)
     /\ InRange(req[i].steps.extracted)
     /\ InRange(req[j].steps.extracted)
     /\ req[i].steps.extracted.fake = req[j].steps.extracted.fake
     /\ req[i].steps.extracted.authentic = req[j].steps.extracted.authentic
     /\ req[i].steps.extracted.malicious.n < req[j].steps.extracted.malicious.n)
      => req[i].result.riskScore.n <= req[j].result.riskScore.n

\* C26: if every component of the raw triple lies in [0, 100], every
\* component of the triple lies in [0, 100] after the override step and after
\* the separation step, and the final triple is the separated one, in
\* gemini, p009 and p010.
C26_ComponentsStayInRange ==
  \A i \in DOMAIN req :
    (/\ Processed(i)
     /\ variant \in {"gemini", "p009", "p010"}
     /\ InRange(req[i].steps.extracted))
      => /\ InRange(req[i].steps.overridden)
         /\ InRange(req[i].steps.separated)
         /\ req[i].result.probabilities = req[i].steps.separated

\* 100/100/100 in p010: the raise is capped at 100
C26_Witness ==
  \E i \in DOMAIN req :
    /\ Processed(i)
    /\ variant = "p010"
    /\ req[i].steps.extracted = Probs(Num(100), Num(100), Num(100))
    /\ req[i].result.probabilities = Probs(Num(100), Num(100), Num(80))

\* C27: in geminiService.ts, for every raw triple with components in
\* [0, 100], the riskScore of processResponse is at most 90: no score from 91
\* to 100 is reached.
C27_GeminiScoreAtMost90 ==
  \A i \in DOMAIN req :
    (/\ Processed(i)
     /\ variant = "gemini"
     /\ InRange(req[i].steps.extracted))
      => /\ IsNum(req[i].result.riskScore)
         /\ req[i].result.riskScore.n <= 90

\* 100/100/0, the largest weighted sum: 90
C27_Witness ==
  \E i \in DOMAIN req :
    /\ Processed(i)
    /\ variant = "gemini"
    /\ req[i].steps.extracted = Probs(Num(100), Num(100), Num(0))
    /\ req[i].result.riskScore = Num(90)

\* C28: in App, in every interleaving of runAnalysis calls, resetState calls
\* and arrivals of results, state.analysis holds a result only if the result
\* belongs to the most recent runAnalysis call and no resetState came since:
\* state.analysis is null in the home and scan views, and a stored result
\* matches state.decodedContent and state.base64Image.
C28_OnlyLatestResultStored ==
  app.state.analysis # NoAnalysis
    => /\ app.state.view = "result"
       /\ app.state.analysis.call = Len(app.calls)
       /\ app.state.analysis.content = app.state.decodedContent
       /\ app.state.analysis.base64 = app.state.base64Image

\* C29: after the Scanner unmounts no camera stream acquired by startCamera
\* stays active: every MediaStream that getUserMedia returned has had its
\* tracks stopped, and at most one acquired stream is un-stopped at any time.
C29_NoStreamAfterUnmount ==
  /\ scanner.phase = "unmounted" => LiveStreams(scanner) = {}
  /\ Cardinality(LiveStreams(scanner)) <= 1

\* C30: for one mounted Scanner, handleCapture calls at most one of onScan and
\* onDeepScan over the component's lifetime, onScan when the frame decodes
\* to a non-empty text and onDeepScan otherwise, and only after stopCamera has
\* stopped every track and cleared the stream; afterwards isCapturing stays
\* true and cameraReady false.
C30_AtMostOneCallback ==
  /\ Len(scanner.called) <= 1
  /\ \A c \in 1..Len(scanner.called) :
       /\ scanner.called[c].fn = "onScan" <=> scanner.called[c].decoded # <<>>
       /\ scanner.called[c].fn = "onDeepScan" <=> scanner.called[c].decoded = <<>>
       /\ scanner.called[c].streamRef = 0
       /\ scanner.called[c].live = {}
  /\ Len(scanner.called) = 1 => (scanner.isCapturing /\ ~scanner.cameraReady)

\* a capture after a retry: onDeepScan called once, both streams stopped
C30_Witness ==
  /\ Len(scanner.called) = 1
  /\ scanner.called[1].fn = "onDeepScan"
  /\ scanner.streams = <<"stopped", "stopped">>
  /\ scanner.phase = "mounted"
  /\ scanner.isCapturing

====
